---- MODULE Spec2Model ----
(***************************************************************************)
(* IS 1893:2025 seismic force calculator (src/app_is1893_2025.py).         *)
(*                                                                         *)
(* The script is a Streamlit page: every widget interaction re-runs the    *)
(* whole script top to bottom against the widget values and the session    *)
(* state.  One action of the model is one such run.                        *)
(*                                                                         *)
(* Numbers.  The script computes in binary floating point.  The model      *)
(* computes in exact rationals <<n, d>> (d > 0, lowest terms) extended by  *)
(* the three IEEE specials pandas produces when it divides by zero:        *)
(*   <<1, 0>> = +inf, <<-1, 0>> = -inf, <<0, 0>> = NaN.                    *)
(* Rounding error is therefore outside the model; every equality below is  *)
(* one of exact arithmetic.                                                *)
(***************************************************************************)
EXTENDS Integers, Sequences, FiniteSets, TLC

VARIABLES
    t1,             \* tab 1 widget values (zone, TR, I, R, site, W, H, dx, dy, TV)
    base_shear,     \* st.session_state.base_shear: <<>> (the empty dict) or <<record>>
    storey_in,      \* tab 2 widget values (storey_dir, num_storeys, Wi_i, Hi_i)
    tab2,           \* what tab 2 did in the last run: "warning", "table" or "skipped"
    storey_df,      \* st.session_state.storey_df: <<>> (never assigned) or <<table>>
    t3,             \* tab 3 widget values
    multi_zone_df,  \* st.session_state.multi_zone_df: <<>> (None) or <<table>>
    raised,         \* where the last run raised: "none", "tab1" or "tab3"
    locked,         \* history: some 'Compute Base Shear' has completed
    probe           \* a direct evaluation of A_NH (specification SpecSpectral)

vars == <<t1, base_shear, storey_in, tab2, storey_df, t3, multi_zone_df, raised, locked, probe>>

----------------------------------------------------------------------------
(* Extended rational arithmetic                                            *)

Abs(x) == IF x < 0 THEN -x ELSE x

Sgn(x) == IF x < 0 THEN -1 ELSE IF x > 0 THEN 1 ELSE 0

RECURSIVE GCD(_, _)
GCD(a, b) == IF b = 0 THEN a ELSE GCD(b, a % b)

\* n/d in lowest terms with a positive denominator; d = 0 gives a special.
Norm(n, d) ==
    IF d = 0 THEN <<Sgn(n), 0>>
    ELSE LET g == GCD(Abs(n), Abs(d))
             s == IF d < 0 THEN -1 ELSE 1
         IN  <<(s * n) \div g, (s * d) \div g>>

Q(n, d) == Norm(n, d)

Zero == <<0, 1>>
NaN == <<0, 0>>
PosInf == <<1, 0>>
NegInf == <<-1, 0>>

IsFinite(a) == a[2] # 0
IsNaN(a) == a = NaN

\* a * b, cancelled crosswise so that the result is in lowest terms.  The
\* specials follow from the representation: inf * 0 = NaN.
Mul(a, b) ==
    IF IsFinite(a) /\ IsFinite(b)
    THEN LET g1 == GCD(Abs(a[1]), b[2])
             g2 == GCD(Abs(b[1]), a[2])
         IN  <<(a[1] \div g1) * (b[1] \div g2), (a[2] \div g2) * (b[2] \div g1)>>
    ELSE <<Sgn(a[1]) * Sgn(b[1]), 0>>

\* a + b over the least common denominator; what is left to cancel divides the
\* greatest common divisor g of the denominators.  inf + (-inf) = NaN.
Add(a, b) ==
    IF IsFinite(a) /\ IsFinite(b)
    THEN LET g == GCD(a[2], b[2])
             n == a[1] * (b[2] \div g) + b[1] * (a[2] \div g)
             h == GCD(Abs(n), g)
         IN  <<n \div h, (a[2] \div g) * (b[2] \div h)>>
    ELSE IF IsNaN(a) \/ IsNaN(b) THEN NaN
    ELSE IF IsFinite(a) THEN b
    ELSE IF IsFinite(b) THEN a
    ELSE IF a = b THEN a ELSE NaN

\* 1 / b in IEEE arithmetic: 1/0 = +inf, 1/inf = 0, 1/NaN = NaN.
Recip(b) ==
    IF b[1] < 0 THEN <<-b[2], -b[1]>> ELSE <<b[2], b[1]>>

\* a / b in IEEE arithmetic, as numpy and pandas divide: no exception, x/0 is
\* +-inf and 0/0 is NaN.
FDiv(a, b) == Mul(a, Recip(b))

\* Comparisons of finite values.
Leq(a, b) == a[1] * b[2] <= b[1] * a[2]
Lt(a, b) == a[1] * b[2] < b[1] * a[2]
IsPos(a) == a[1] > 0 /\ a[2] > 0
IsNeg(a) == a[1] < 0 /\ a[2] > 0

\* An IEEE comparison: false as soon as one side is NaN.
FGeq(a, b) ==
    IF IsNaN(a) \/ IsNaN(b) THEN FALSE
    ELSE IF IsFinite(a) /\ IsFinite(b) THEN Leq(b, a)
    ELSE IF a = b THEN TRUE
    ELSE a = PosInf \/ b = NegInf

----------------------------------------------------------------------------
(* Reference data and the spectral functions                               *)

Zones == <<"II", "III", "IV", "V", "VI">>
ReturnPeriods == <<75, 175, 275, 475, 975, 1275, 2475, 4975, 9975>>
Sites == {"A/B", "C", "D"}

\* Z_TABLE, the entries in ten-thousandths, one row per zone in ReturnPeriods order.
ZRows ==
    [VI  |-> <<3000, 3750, 4500, 5000, 6000, 6250, 7500, 9400, 11250>>,
     V   |-> <<2000, 2500, 3000, 3330, 4000, 4167, 5000, 6250, 7500>>,
     IV  |-> <<1400, 1750, 2100, 2330, 2800, 2917, 3500, 4400, 5250>>,
     III |-> <<625, 850, 1000, 1250, 1670, 1875, 2500, 3330, 4500>>,
     II  |-> <<375, 500, 600, 750, 1000, 1125, 1500, 2000, 2700>>]

Z_TABLE(zone, tr) ==
    LET k == CHOOSE j \in 1..Len(ReturnPeriods) : ReturnPeriods[j] = tr
    IN  Q(ZRows[zone][k], 10000)

\* The end of the plateau of A_NH for a site class: 0.4, 0.6, 0.8.
PlateauEnd(site) ==
    IF site = "A/B" THEN Q(2, 5) ELSE IF site = "C" THEN Q(3, 5) ELSE Q(4, 5)

\* The end of the middle segment of A_NH: T <= 6.
MidEnd == Q(6, 1)

\* The plateau value 2.5.
Plateau == Q(5, 2)

\* The middle segment of A_NH: 1/T, 1.5/T, 2/T.
MidSegment(T, site) ==
    IF site = "A/B" THEN FDiv(Q(1, 1), T)
    ELSE IF site = "C" THEN FDiv(Q(3, 2), T)
    ELSE FDiv(Q(2, 1), T)

\* A tail that forgets the site class: 6/T**2 whatever the site.
TailSegment_OneSite(T, site) == FDiv(Q(6, 1), Mul(T, T))

\* The tail of A_NH: 6/T**2, 9/T**2, 12/T**2.
TailSegment(T, site) ==
    IF site = "A/B" THEN FDiv(Q(6, 1), Mul(T, T))
    ELSE IF site = "C" THEN FDiv(Q(9, 1), Mul(T, T))
    ELSE FDiv(Q(12, 1), Mul(T, T))

A_NH(T, site) ==
    IF Leq(T, PlateauEnd(site)) THEN Plateau
    ELSE IF Leq(T, MidEnd) THEN MidSegment(T, site)
    ELSE TailSegment(T, site)

delta_v(T, site) ==
    IF Lt(Q(1, 10), T) THEN Q(67, 100)
    ELSE IF site = "A/B" THEN Q(80, 100)
    ELSE IF site = "C" THEN Q(82, 100)
    ELSE Q(85, 100)

\* gamma_v builds the whole dict before it indexes it: all three quotients are
\* evaluated, so T = 0 raises ZeroDivisionError for every site.
gamma_vRaises(T) == T = Zero

gamma_v(T, site) ==
    IF site = "A/B" THEN FDiv(Q(1, 1), T)
    ELSE IF site = "C" THEN FDiv(Q(3, 2), T)
    ELSE FDiv(Q(2, 1), T)

----------------------------------------------------------------------------
(* math.sqrt                                                               *)

RECURSIVE ISqrtBetween(_, _, _)
\* The largest r in lo..hi with r * r <= x (lo * lo <= x).
ISqrtBetween(x, lo, hi) ==
    IF lo >= hi THEN lo
    ELSE LET mid == (lo + hi + 1) \div 2
         IN  IF mid * mid <= x THEN ISqrtBetween(x, mid, hi)
             ELSE ISqrtBetween(x, lo, mid - 1)

ISqrt(x) == ISqrtBetween(x, 0, 46340)

\* math.sqrt raises ValueError below zero.
SqrtRaises(a) == IsNeg(a)

\* math.sqrt of a >= 0: exact when a is the square of a rational, otherwise
\* rounded down to two decimals (the script rounds to 53 bits).
Sqrt(a) ==
    LET rn == ISqrt(a[1])
        rd == ISqrt(a[2])
    IN  IF rn * rn = a[1] /\ rd * rd = a[2] THEN Norm(rn, rd)
        ELSE Norm(ISqrt((a[1] * 10000) \div a[2]), 100)

\* T = 0.09 * H / math.sqrt(d): ValueError for d < 0, ZeroDivisionError for d = 0.
PeriodRaises(d) == SqrtRaises(d) \/ Sqrt(d) = Zero

Period(H, d) == FDiv(Mul(Q(9, 100), H), Sqrt(d))

----------------------------------------------------------------------------
(* Tab 1: base shear                                                       *)

\* The widgets of tab 1 as the page first shows them.
T1Default ==
    [zone |-> "II", TR |-> 75, I |-> Q(1, 1), R |-> Q(5, 1), site |-> "A/B",
     W |-> Q(10000, 1), H |-> Q(15, 1), dx |-> Q(10, 1), dy |-> Q(15, 1),
     TV |-> Q(2, 5)]

\* (Z * I * A / R) * W.
HorizontalShear(Z, I, A, R, W) == Mul(FDiv(Mul(Mul(Z, I), A), R), W)

\* Z * I * delta_v(TV, site) * gamma_v(TV, site) * W.
VerticalShear(Z, I, TV, site, W) ==
    Mul(Mul(Mul(Mul(Z, I), delta_v(TV, site)), gamma_v(TV, site)), W)

\* The exceptions of the 'Compute Base Shear' handler: math.sqrt of a negative
\* plan dimension, float division by sqrt(0), by R = 0 and, in gamma_v, by TV = 0.
ComputeRaises(t) ==
    \/ PeriodRaises(t.dx)
    \/ PeriodRaises(t.dy)
    \/ t.R = Zero
    \/ gamma_vRaises(t.TV)

\* The dict the handler stores when nothing raises.
BaseShearRecord(t) ==
    LET Z == Z_TABLE(t.zone, t.TR)
        Tx == Period(t.H, t.dx)
        Ty == Period(t.H, t.dy)
    IN  [Zone |-> t.zone, TR |-> t.TR, Z |-> Z, I |-> t.I, R |-> t.R,
         Site |-> t.site, W |-> t.W, Tx |-> Tx, Ty |-> Ty,
         Vx |-> HorizontalShear(Z, t.I, A_NH(Tx, t.site), t.R, t.W),
         Vy |-> HorizontalShear(Z, t.I, A_NH(Ty, t.site), t.R, t.W),
         Vv |-> VerticalShear(Z, t.I, t.TV, t.site, t.W)]

\* A tab 1 without the button: the base shear is recomputed in every run.
Tab1Run_EveryRun(pressed, t, bs) ==
    IF ComputeRaises(t) THEN [raised |-> pressed, bs |-> bs]
    ELSE [raised |-> FALSE, bs |-> <<BaseShearRecord(t)>>]

\* A handler that empties the record before it computes.
Tab1Run_ClearFirst(pressed, t, bs) ==
    IF ~pressed THEN [raised |-> FALSE, bs |-> bs]
    ELSE IF ComputeRaises(t) THEN [raised |-> TRUE, bs |-> <<>>]
    ELSE [raised |-> FALSE, bs |-> <<BaseShearRecord(t)>>]

\* The tab 1 block of one run: the stored record after it and whether it raised.
Tab1Run(pressed, t, bs) ==
    IF ~pressed THEN [raised |-> FALSE, bs |-> bs]
    ELSE IF ComputeRaises(t) THEN [raised |-> TRUE, bs |-> bs]
    ELSE [raised |-> FALSE, bs |-> <<BaseShearRecord(t)>>]

----------------------------------------------------------------------------
(* Tab 2: storey distribution                                              *)

\* The default of num_storeys.
DefaultStoreys == 5

\* The widgets of tab 2 when no value has been entered.  A storey field is <<>>
\* while it shows its default (W / N, 3.0 * i) and <<v>> once v is entered.
StoreyFields(n) == [i \in 1..n |-> <<>>]

StoreyDefault ==
    [dir |-> "X", N |-> DefaultStoreys,
     Wi |-> StoreyFields(DefaultStoreys), Hi |-> StoreyFields(DefaultStoreys)]

\* Wi of row i: the entered value, else W / N of the stored record.
StoreyWeight(in, rec, i) ==
    IF in.Wi[i] = <<>> THEN FDiv(rec.W, Q(in.N, 1)) ELSE in.Wi[i][1]

\* Hi of row i: the entered value, else 3.0 * i.
StoreyHeight(in, i) ==
    IF in.Hi[i] = <<>> THEN Q(3 * i, 1) ELSE in.Hi[i][1]

RECURSIVE Tabulate(_, _)
\* The column <<Op(1), ..., Op(n)>>.
Tabulate(Op(_), n) == IF n = 0 THEN <<>> ELSE Append(Tabulate(Op, n - 1), Op(n))

RECURSIVE SumFrom(_, _)
\* Series.sum() of s[i..]: the values are never NaN here (products of inputs).
SumFrom(s, i) == IF i > Len(s) THEN Zero ELSE Add(s[i], SumFrom(s, i + 1))

Sum(s) == SumFrom(s, 1)

\* A load factor that is linear in the height.
LoadFactor_Linear(Wi, Hi) == Mul(Wi, Hi)

\* df["WiHi2"] = Wi * Hi ** 2.
LoadFactor(Wi, Hi) == Mul(Wi, Mul(Hi, Hi))

DistributeOver(f, total, V) ==
    Tabulate(LAMBDA i : Mul(FDiv(f[i], total), V), Len(f))

\* column / column.sum() * V, elementwise, in pandas' arithmetic.
Distribute(f, V) == DistributeOver(f, Sum(f), V)

\* column[::-1]
Reverse(s) == Tabulate(LAMBDA i : s[Len(s) + 1 - i], Len(s))

AppendRunning(sofar, y, n) ==
    Append(sofar, IF n = 1 THEN y[1] ELSE Add(sofar[n - 1], y[n]))

RECURSIVE Running(_, _)
\* numpy.cumsum of y[1..n].
Running(y, n) == IF n = 0 THEN <<>> ELSE AppendRunning(Running(y, n - 1), y, n)

PutNaNBack(q, sums) ==
    Tabulate(LAMBDA i : IF IsNaN(q[i]) THEN NaN ELSE sums[i], Len(q))

\* Series.cumsum(): pandas sums with every NaN replaced by 0 and then puts NaN
\* back where it was.
CumSum(q) ==
    PutNaNBack(q, Running(Tabulate(LAMBDA i : IF IsNaN(q[i]) THEN Zero ELSE q[i],
                                   Len(q)), Len(q)))

\* A cumulative sum that was not reversed: it runs from the base upward.
ReverseCumSum_Forward(q) == CumSum(q)

\* column[::-1].cumsum()[::-1]
ReverseCumSum(q) == Reverse(CumSum(Reverse(q)))

\* Vx, Vy, Vv and W as tab 2 reads them from the stored record.
Tab2Shears(rec) == [Vx |-> rec.Vx, Vy |-> rec.Vy, Vv |-> rec.Vv, W |-> rec.W]

\* The data frame, one record per row, from its columns.
StoreyFrame(Wi, Hi, f, QX, QY, QV, VDX, VDY, VDV) ==
    Tabulate(LAMBDA i :
                [Storey |-> i, Wi |-> Wi[i], Hi |-> Hi[i], WiHi2 |-> f[i],
                 QX |-> QX[i], QY |-> QY[i], QV |-> QV[i],
                 VDX |-> VDX[i], VDY |-> VDY[i], VDV |-> VDV[i]], Len(Wi))

\* The cumulative columns VDi from the force columns QDi.
WithForces(Wi, Hi, f, QX, QY, QV) ==
    StoreyFrame(Wi, Hi, f, QX, QY, QV,
                ReverseCumSum(QX), ReverseCumSum(QY), ReverseCumSum(QV))

\* The force columns QDi from the load factors and the stored shears.
WithFactors(s, Wi, Hi, f) ==
    WithForces(Wi, Hi, f, Distribute(f, s.Vx), Distribute(f, s.Vy), Distribute(Wi, s.Vv))

\* The column WiHi2 from the rows.
WithRows(s, Wi, Hi) ==
    WithFactors(s, Wi, Hi, Tabulate(LAMBDA i : LoadFactor(Wi[i], Hi[i]), Len(Wi)))

\* The rows [i, Wi, Hi] as the widgets give them.
StoreyRows(in, s) ==
    WithRows(s, Tabulate(LAMBDA i : StoreyWeight(in, s, i), in.N),
             Tabulate(LAMBDA i : StoreyHeight(in, i), in.N))

\* The data frame of tab 2: rows 1..N, base to top.
StoreyTable(in, rec) == StoreyRows(in, Tab2Shears(rec))

\* The guard of tab 2: `if not st.session_state.base_shear` shows the warning.
Tab2Shown(bs) == bs # <<>>

----------------------------------------------------------------------------
(* Tab 3: multi-zone study                                                 *)

T3Default ==
    [zones |-> <<"II", "III", "IV", "V">>, TR |-> 75, I |-> Q(1, 1), R |-> Q(5, 1),
     site |-> "A/B", W |-> Q(10000, 1), H |-> Q(15, 1), dx |-> Q(10, 1),
     dy |-> Q(15, 1)]

\* The exceptions of the 'Compute Multi-Zone Base Shear' handler; the division by
\* R sits in the loop over the selected zones.
MultiZoneRaises(t) ==
    \/ PeriodRaises(t.dx)
    \/ PeriodRaises(t.dy)
    \/ (t.zones # <<>> /\ t.R = Zero)

MultiZoneTable(t) ==
    LET Tx == Period(t.H, t.dx)
        Ty == Period(t.H, t.dy)
    IN  [k \in 1..Len(t.zones) |->
            LET Z == Z_TABLE(t.zones[k], t.TR)
            IN  [Zone |-> t.zones[k], Z |-> Z,
                 Vx |-> HorizontalShear(Z, t.I, A_NH(Tx, t.site), t.R, t.W),
                 Vy |-> HorizontalShear(Z, t.I, A_NH(Ty, t.site), t.R, t.W)]]

\* The tab 3 block of one run.
Tab3Run(pressed, t, mz) ==
    IF ~pressed THEN [raised |-> FALSE, mz |-> mz]
    ELSE IF MultiZoneRaises(t) THEN [raised |-> TRUE, mz |-> mz]
    ELSE [raised |-> FALSE, mz |-> <<MultiZoneTable(t)>>]

----------------------------------------------------------------------------
(* The values the model enters into the widgets                            *)

\* At most MaxEdited widgets hold a value other than their default at once.
MaxEdited == 1

\* num_storeys ranges over 1..MaxStoreys.
MaxStoreys == 5

\* Tab 1: the values tried per widget (the default is always one of them).
T1Domain ==
    [zone |-> {"II", "V"}, TR |-> {75}, I |-> {Q(1, 1)},
     R |-> {Q(5, 1), Zero}, site |-> {"A/B"},
     W |-> {Q(10000, 1), Zero, Q(-10000, 1)}, H |-> {Q(15, 1), Zero},
     dx |-> {Q(10, 1), Zero}, dy |-> {Q(15, 1), Q(-1, 1)},
     TV |-> {Q(2, 5), Zero, Q(-2, 5)}]

\* Tab 2: the values entered into a storey field in a run of the page.
EnteredWeights == {Zero}
EnteredHeights == {Zero}

\* Tab 3: the values tried per widget.
T3Domain ==
    [zones |-> {<<"II", "III", "IV", "V">>, <<>>}, TR |-> {75}, I |-> {Q(1, 1)},
     R |-> {Q(5, 1), Zero}, site |-> {"A/B"}, W |-> {Q(10000, 1)},
     H |-> {Q(15, 1)}, dx |-> {Q(10, 1)}, dy |-> {Q(15, 1)}]

Changed(r, dflt) == Cardinality({f \in DOMAIN r : r[f] # dflt[f]})

StoreyChanged(in) ==
    (IF in.dir # "X" THEN 1 ELSE 0) + (IF in.N # DefaultStoreys THEN 1 ELSE 0)
    + Cardinality({i \in 1..in.N : in.Wi[i] # <<>>})
    + Cardinality({i \in 1..in.N : in.Hi[i] # <<>>})

WithinEdits(a, in, c) ==
    Changed(a, T1Default) + StoreyChanged(in) + Changed(c, T3Default) <= MaxEdited

----------------------------------------------------------------------------
(* One run of the script                                                   *)

\* A session that starts with a record already in place.
InitialBaseShear_Stale == <<BaseShearRecord(T1Default)>>

\* st.session_state.base_shear = {} on the first run of a session.
InitialBaseShear == <<>>

IdleProbe == [T |-> Zero, site |-> "A/B", A |-> Zero, done |-> FALSE]

Init ==
    /\ t1 = T1Default
    /\ base_shear = InitialBaseShear
    /\ storey_in = StoreyDefault
    /\ tab2 = "warning"
    /\ storey_df = <<>>
    /\ t3 = T3Default
    /\ multi_zone_df = <<>>
    /\ raised = "none"
    /\ locked = FALSE
    /\ probe = IdleProbe

\* The rest of a run once tab 1 has run (r1) and with what tab 3 does (r3).
\* An exception ends the run where it is raised; a widget the run did not reach
\* loses its value and shows its default when it is next drawn.
AfterTab1(pressed, a, in, c, r1, r3) ==
    /\ t1' = a
    /\ base_shear' = r1.bs
    /\ locked' = (locked \/ (pressed /\ ~r1.raised))
    /\ probe' = probe
    /\ IF r1.raised
       THEN /\ tab2' = "skipped"
            /\ storey_in' = StoreyDefault
            /\ storey_df' = storey_df
            /\ t3' = T3Default
            /\ multi_zone_df' = multi_zone_df
            /\ raised' = "tab1"
       ELSE /\ IF Tab2Shown(r1.bs)
               THEN /\ tab2' = "table"
                    /\ storey_in' = in
                    /\ storey_df' = <<StoreyTable(in, r1.bs[1])>>
               ELSE /\ tab2' = "warning"
                    /\ storey_in' = StoreyDefault
                    /\ storey_df' = storey_df
            /\ t3' = c
            /\ multi_zone_df' = r3.mz
            /\ raised' = IF r3.raised THEN "tab3" ELSE "none"

\* The script from top to bottom with the widget values a, in, c of this run;
\* button is the button whose press started the run, "none" for an edit.
ScriptRun(button, a, in, c) ==
    AfterTab1(button = "compute", a, in, c,
              Tab1Run(button = "compute", a, base_shear),
              Tab3Run(button = "multizone", c, multi_zone_df))

\* The tabs whose widgets the last run drew.
Tab2Drawn == tab2 = "table"
Tab3Drawn == raised # "tab1"

\* A widget of tab 1 is changed.
EditTab1 ==
    \E f \in DOMAIN T1Domain : \E v \in T1Domain[f] :
        /\ v # t1[f]
        /\ WithinEdits([t1 EXCEPT ![f] = v], storey_in, t3)
        /\ ScriptRun("none", [t1 EXCEPT ![f] = v], storey_in, t3)

\* 'Compute Base Shear' is pressed.
ComputeBaseShear == ScriptRun("compute", t1, storey_in, t3)

\* storey_dir is changed.
EditDirection ==
    /\ Tab2Drawn
    /\ \E d \in {"X", "Y"} :
        /\ d # storey_in.dir
        /\ WithinEdits(t1, [storey_in EXCEPT !.dir = d], t3)
        /\ ScriptRun("none", t1, [storey_in EXCEPT !.dir = d], t3)

\* The storey fields after num_storeys becomes n: rows above n are no longer
\* drawn, new rows show their defaults.
Resize(in, n) ==
    [in EXCEPT !.N = n,
               !.Wi = [i \in 1..n |-> IF i <= in.N THEN in.Wi[i] ELSE <<>>],
               !.Hi = [i \in 1..n |-> IF i <= in.N THEN in.Hi[i] ELSE <<>>]]

\* num_storeys is changed.
EditStoreys ==
    /\ Tab2Drawn
    /\ \E n \in 1..MaxStoreys :
        /\ n # storey_in.N
        /\ WithinEdits(t1, Resize(storey_in, n), t3)
        /\ ScriptRun("none", t1, Resize(storey_in, n), t3)

\* A storey weight Wi_i is entered.
EditWeight ==
    /\ Tab2Drawn
    /\ \E i \in 1..storey_in.N : \E w \in EnteredWeights :
        /\ storey_in.Wi[i] # <<w>>
        /\ WithinEdits(t1, [storey_in EXCEPT !.Wi[i] = <<w>>], t3)
        /\ ScriptRun("none", t1, [storey_in EXCEPT !.Wi[i] = <<w>>], t3)

\* A storey height Hi_i is entered.
EditHeight ==
    /\ Tab2Drawn
    /\ \E i \in 1..storey_in.N : \E h \in EnteredHeights :
        /\ storey_in.Hi[i] # <<h>>
        /\ WithinEdits(t1, [storey_in EXCEPT !.Hi[i] = <<h>>], t3)
        /\ ScriptRun("none", t1, [storey_in EXCEPT !.Hi[i] = <<h>>], t3)

\* A widget of tab 3 is changed.
EditTab3 ==
    /\ Tab3Drawn
    /\ \E f \in DOMAIN T3Domain : \E v \in T3Domain[f] :
        /\ v # t3[f]
        /\ WithinEdits(t1, storey_in, [t3 EXCEPT ![f] = v])
        /\ ScriptRun("none", t1, storey_in, [t3 EXCEPT ![f] = v])

\* 'Compute Multi-Zone Base Shear' is pressed.
ComputeMultiZone ==
    /\ Tab3Drawn
    /\ ScriptRun("multizone", t1, storey_in, t3)

Next ==
    \/ EditTab1
    \/ ComputeBaseShear
    \/ EditDirection
    \/ EditStoreys
    \/ EditWeight
    \/ EditHeight
    \/ EditTab3
    \/ ComputeMultiZone

Spec == Init /\ [][Next]_vars

----------------------------------------------------------------------------
(* The storey distribution on its own                                      *)
(*                                                                         *)
(* SpecDist starts tab 2 from a stored record and any storey widgets with  *)
(* at most MaxDistStoreys rows (or the untouched default page) and         *)
(* evaluates the data frame once.                                          *)

MaxDistStoreys == 3

WeightInputs == {Zero, Q(-2000, 1), Q(500, 1)}
HeightInputs == {Zero, Q(30, 1)}

\* Inputs of tab 1 whose 'Compute Base Shear' gives the records SpecDist starts from.
DistInputs ==
    {T1Default,
     [T1Default EXCEPT !.zone = "V"],
     [T1Default EXCEPT !.W = Q(-10000, 1), !.H = Q(237, 1), !.site = "D"]}

FieldChoices(values) == {<<>>} \cup {<<v>> : v \in values}

DistStoreys ==
    {StoreyDefault} \cup
    UNION {[dir : {"X"}, N : {n},
            Wi : [1..n -> FieldChoices(WeightInputs)],
            Hi : [1..n -> FieldChoices(HeightInputs)]] : n \in 1..MaxDistStoreys}

InitDist ==
    /\ t1 = T1Default
    /\ base_shear \in {<<BaseShearRecord(t)>> : t \in DistInputs}
    /\ storey_in \in DistStoreys
    /\ tab2 = "skipped"
    /\ storey_df = <<>>
    /\ t3 = T3Default
    /\ multi_zone_df = <<>>
    /\ raised = "none"
    /\ locked = TRUE
    /\ probe = IdleProbe

\* Tab 2 of one run: the data frame is computed and saved.
EvaluateTab2 ==
    /\ tab2 # "table"
    /\ Tab2Shown(base_shear)
    /\ tab2' = "table"
    /\ storey_df' = <<StoreyTable(storey_in, base_shear[1])>>
    /\ UNCHANGED <<t1, base_shear, storey_in, t3, multi_zone_df, raised, locked, probe>>

NextDist == EvaluateTab2

SpecDist == InitDist /\ [][NextDist]_vars

----------------------------------------------------------------------------
(* A_NH on its own                                                         *)
(*                                                                         *)
(* SpecSpectral evaluates A_NH at T = k/10 s, k = 1..ProbeSteps, for every *)
(* site class.                                                             *)

ProbeSteps == 70

InitSpectral ==
    /\ t1 = T1Default
    /\ base_shear = InitialBaseShear
    /\ storey_in = StoreyDefault
    /\ tab2 = "warning"
    /\ storey_df = <<>>
    /\ t3 = T3Default
    /\ multi_zone_df = <<>>
    /\ raised = "none"
    /\ locked = FALSE
    /\ probe \in [T : {Q(k, 10) : k \in 1..ProbeSteps}, site : Sites,
                  A : {Zero}, done : {FALSE}]

EvaluateSpectrum ==
    /\ ~probe.done
    /\ probe' = [probe EXCEPT !.A = A_NH(probe.T, probe.site), !.done = TRUE]
    /\ UNCHANGED <<t1, base_shear, storey_in, tab2, storey_df, t3, multi_zone_df,
                   raised, locked>>

NextSpectral == EvaluateSpectrum

SpecSpectral == InitSpectral /\ [][NextSpectral]_vars

----------------------------------------------------------------------------
(* Properties                                                              *)

\* The saved data frame and the stored record, where there is one.
Frame == storey_df[1]
Stored == base_shear[1]

Rows == 1..Len(Frame)

\* C1: tab 2 evaluates the storey distribution only on a non-empty stored record,
\* and the record is non-empty only after a 'Compute Base Shear' has completed;
\* while the record is empty, tab 2 computes no storey table.
C1_Tab2OnlyAfterCompute ==
    /\ tab2 = "table" => (base_shear # <<>> /\ locked)
    /\ base_shear # <<>> => locked
    /\ base_shear = <<>> => (tab2 # "table" /\ storey_df = <<>>)

\* C1 witness: the table has been evaluated, on edited storey widgets, after a compute.
C1_Witness ==
    /\ tab2 = "table"
    /\ locked
    /\ storey_df # <<>>
    /\ storey_in.N # DefaultStoreys

\* C2: a run in which 'Compute Base Shear' is not pressed leaves the stored record
\* as it was, and the data frame of that run is the distribution of the stored
\* shears, not of shears recomputed from the inputs of tab 1.
C2_FrozenBetweenComputes ==
    [][~ComputeBaseShear =>
        /\ base_shear' = base_shear
        /\ tab2' = "table" => storey_df' = <<StoreyTable(storey_in', base_shear[1])>>]_vars

\* C2 witness: the table is shown while the inputs of tab 1 would give another record.
C2_Witness ==
    /\ tab2 = "table"
    /\ raised = "none"
    /\ ~ComputeRaises(t1)
    /\ Stored # BaseShearRecord(t1)
    /\ Stored.Vx # BaseShearRecord(t1).Vx

AllPositive == \A i \in Rows : IsPos(Frame[i].Wi) /\ IsPos(Frame[i].Hi)

\* C3: with all weights and heights positive, the cumulative shear at storey 1 is
\* the stored base shear, in each of X, Y and V.
C3_Conservation ==
    (tab2 = "table" /\ AllPositive) =>
        /\ Frame[1].VDX = Stored.Vx
        /\ Frame[1].VDY = Stored.Vy
        /\ Frame[1].VDV = Stored.Vv

\* C3 witness: a frame of three positive rows, one of them with an entered weight
\* and one with an entered height.
C3_Witness ==
    /\ tab2 = "table"
    /\ AllPositive
    /\ Len(Frame) = 3
    /\ storey_in.Wi[2] # <<>>
    /\ storey_in.Hi[3] # <<>>

\* C4: each cumulative shear column is non-increasing from storey 1 to storey N,
\* whatever was entered.
C4_NonIncreasing ==
    tab2 = "table" =>
        \A i \in Rows : i < Len(Frame) =>
            /\ FGeq(Frame[i].VDX, Frame[i + 1].VDX)
            /\ FGeq(Frame[i].VDY, Frame[i + 1].VDY)
            /\ FGeq(Frame[i].VDV, Frame[i + 1].VDV)

\* Wi * Hi^2 of a row, from the row's own Wi and Hi.
ClaimedFactor(i) == Mul(Frame[i].Wi, Mul(Frame[i].Hi, Frame[i].Hi))

SumOfFactors == Sum(Tabulate(LAMBDA i : ClaimedFactor(i), Len(Frame)))
SumOfWeights == Sum(Tabulate(LAMBDA i : Frame[i].Wi, Len(Frame)))

\* The page as first drawn: five storeys of equal weight at 3, 6, 9, 12, 15 m.
FiveEqualStoreys ==
    /\ Len(Frame) = 5
    /\ \A i \in Rows : Frame[i].Wi = Frame[1].Wi /\ Frame[i].Hi = Q(3 * i, 1)
    /\ IsPos(Frame[1].Wi)

\* C5: Qi = V * Wi * Hi^2 / sum_j Wj * Hj^2 horizontally, Qi = Vv * Wi / sum_j Wj
\* vertically (for the sums that are not zero), the cumulative
\* shear at level i is the sum of Qk over k >= i, and for five equal storeys at
\* 3..15 m with V = 1000 the factors are as 9, 36, 81, 144, 225 of 495, the top
\* force is 1000 * 225 / 495 and the shear at storey 1 is 1000.
C5_Distribution ==
    tab2 = "table" =>
        /\ SumOfFactors # Zero =>
            \A i \in Rows :
                /\ Frame[i].WiHi2 = ClaimedFactor(i)
                /\ Frame[i].QX = Mul(Stored.Vx, FDiv(ClaimedFactor(i), SumOfFactors))
                /\ Frame[i].QY = Mul(Stored.Vy, FDiv(ClaimedFactor(i), SumOfFactors))
                /\ Frame[i].VDX = IF i = Len(Frame) THEN Frame[i].QX
                                  ELSE Add(Frame[i].QX, Frame[i + 1].VDX)
                /\ Frame[i].VDY = IF i = Len(Frame) THEN Frame[i].QY
                                  ELSE Add(Frame[i].QY, Frame[i + 1].VDY)
        /\ SumOfWeights # Zero =>
            \A i \in Rows :
                /\ Frame[i].QV = Mul(Stored.Vv, FDiv(Frame[i].Wi, SumOfWeights))
                /\ Frame[i].VDV = IF i = Len(Frame) THEN Frame[i].QV
                                  ELSE Add(Frame[i].QV, Frame[i + 1].VDV)
        /\ (FiveEqualStoreys /\ Stored.Vy = Q(1000, 1)) =>
            /\ \A i \in Rows :
                FDiv(Frame[i].WiHi2, SumOfFactors) = Q(9 * i * i, 495)
            /\ Frame[5].QY = Q(1000 * 225, 495)
            /\ Frame[1].VDY = Q(1000, 1)

\* C5 witness: the five equal storeys under a stored horizontal shear of 1000.
C5_Witness ==
    /\ tab2 = "table"
    /\ FiveEqualStoreys
    /\ Stored.Vy = Q(1000, 1)
    /\ Frame[1].Wi = Q(2000, 1)

\* H <= 0 makes Tx and Ty <= 0; TV is the vertical period itself.
NonPositivePeriodOrPlan(t) ==
    \/ ~IsPos(t.H)
    \/ ~IsPos(t.TV)
    \/ ~IsPos(t.dx)
    \/ ~IsPos(t.dy)

\* C6: 'Compute Base Shear' pressed with a non-positive period or plan dimension
\* raises and stores nothing.
C6_NonPositivePeriodFails ==
    [][(ComputeBaseShear /\ NonPositivePeriodOrPlan(t1)) =>
        (raised' = "tab1" /\ base_shear' = base_shear)]_vars

HasNaN(row) ==
    \/ IsNaN(row.QX) \/ IsNaN(row.QY) \/ IsNaN(row.QV)
    \/ IsNaN(row.VDX) \/ IsNaN(row.VDY) \/ IsNaN(row.VDV)

\* C7: no storey table with NaN forces or shears is ever produced and saved.
C7_NoNaNTableSaved ==
    storey_df # <<>> => \A i \in Rows : ~HasNaN(Frame[i])

NonNegative(v) == IsFinite(v) /\ v[1] >= 0

\* C8: the stored record never holds a negative or undefined Vx, Vy or Vv that came
\* from R = 0 or W < 0.
C8_NoSilentNegativeShear ==
    (base_shear # <<>> /\ (Stored.R = Zero \/ IsNeg(Stored.W))) =>
        /\ NonNegative(Stored.Vx)
        /\ NonNegative(Stored.Vy)
        /\ NonNegative(Stored.Vv)

\* C9: A_NH is continuous at both segment boundaries of every site class: at the
\* end of the plateau its value 2.5 is the value of the middle formula, and at
\* T = 6 its value is the value of the tail formula.
C9_Continuity ==
    probe.done =>
        /\ probe.T = PlateauEnd(probe.site) =>
            (probe.A = Plateau /\ probe.A = MidSegment(probe.T, probe.site))
        /\ probe.T = MidEnd =>
            (probe.A = MidSegment(probe.T, probe.site)
             /\ probe.A = TailSegment(probe.T, probe.site))

\* C9 witness: A_NH evaluated at T = 6 for site class C.
C9_Witness == probe.done /\ probe.T = MidEnd /\ probe.site = "C"

\* C10: a 'Compute Base Shear' that raises leaves the stored record as it was.
C10_RaisingComputeKeepsRecord ==
    [][(ComputeBaseShear /\ ComputeRaises(t1)) =>
        (raised' = "tab1" /\ base_shear' = base_shear)]_vars

\* C10 witness: the last run raised in tab 1 and a record from an earlier compute
\* is still stored.
C10_Witness == raised = "tab1" /\ base_shear # <<>> /\ locked

====
